---- MODULE Spec2Model ----
(***************************************************************************)
(* Model of KieranMigaku/molecular-descriptors:                            *)
(*   - y4_python/similarity.py: the pairwise distance engine               *)
(*     (itertools.combinations over db.get_all()) and its users, with the  *)
(*     streaming top-k selector `algo` it hands the pairs to, and          *)
(*     avg_distance_of_k_neighbours;                                       *)
(*   - y4_python/python_modules/database.py: the DB object, the adapter    *)
(*     and converter of the orbital descriptor column and the ingestion    *)
(*     script main();                                                      *)
(*   - y4_python/python_modules/orbital_calculations.py (known through     *)
(*     tests/test_orbital_calculations.py): homoLumoNumbersFromJson,       *)
(*     calc_inertia_tensor, calc_center_of_mass.                           *)
(*                                                                         *)
(* Floats are modelled exactly: masses and coordinates are integers (in    *)
(* units of a mass unit u and a length unit), a quotient is kept as a      *)
(* numerator/denominator pair.                                             *)
(***************************************************************************)
EXTENDS Integers, Sequences, FiniteSets, TLC

\* ------------------------------------------------------------------ bounds
\* rows of the dataset the pairwise engine runs on
MaxN == 4
\* the comparable column of a row takes a value in 0..MaxVal
MaxVal == 2
\* the k of get_most_least_similar ranges over 1..MaxK
MaxK == 3
\* point masses in a list passed to calc_inertia_tensor / calc_center_of_mass
MaxPoints == 2
\* orbital indices of a mapping passed to homoLumoNumbersFromJson: 1..MaxOrb
MaxOrb == 3
\* rows an ingestion run reads from the BLYP source before the model stops it
MaxRows == 3
\* rows the dataset table holds in the model of the DB object's operations
MaxTable == 3

\* ------------------------------------------------------------- small helpers
Abs(x) == IF x < 0 THEN -x ELSE x

Range(s) == {s[i] : i \in 1..Len(s)}

\* Python's None (a tuple, as the rows, blobs and fingerprints it stands in for)
None == <<"None">>

\* ------------------------------------------------------------ dataset rows
\* DatasetItem: (mol_id, E_pm7, E_blyp, smiles, fingerprint, serialized_mo),
\* a 6-tuple; Python's 0-based column c is position c+1 here.
DatasetItem(mol_id, pm7, blyp, smiles, fp, mo) ==
    <<mol_id, pm7, blyp, smiles, fp, mo>>

\* ------------------------------------------------- the pairwise distance engine
VARIABLES
    table,        \* the rows of the dataset table as the connection sees them, in rowid order
    durable       \* the rows a commit has made durable

dbVars == <<table, durable>>

VARIABLES
    distance_fun, \* the distance function the operation is called with
    op,           \* the similarity.py operation in progress ("none" before a call)
    k,            \* the k passed to get_most_least_similar and avg_distance_of_k_neighbours (0 for the other operations)
    descending,   \* the descending argument of sort_by_distance
    pc,           \* "idle", "pairs" (inside the loop over pairs), "done", "error" (the call raised)
    raised,       \* the exception that ended the call ("" while there is none)
    effects,      \* log of what the call did outside itself: "create_dir", "get_all"
    cancelled_at, \* pairs evaluated when the caller asked the running operation to stop (-1: not asked)
    all_,         \* all_ = db.get_all(), the snapshot the pairs are drawn from
    indices,      \* state of itertools.combinations(all_, 2): the next pair, <<>> when exhausted
    calls,        \* log of the evaluations of distance_fun: the positions <<i, j>> of its arguments
    distances,    \* the list / array of per-pair results the operation has materialized
    small,        \* algo: the candidates for the k smallest, ascending by key
    large,        \* algo: the candidates for the k largest, descending by key
    result        \* what the operation returned

engineVars ==
    <<distance_fun, op, k, descending, pc, raised, effects, cancelled_at,
      all_, indices, calls, distances, small, large, result>>

\* ---- orbital_calculations: one call of a function of the module
VARIABLES
    call,     \* the function called ("none" when no call is modelled)
    arg,      \* its argument
    outcome,  \* "pending", then "returned" or "raised"
    ret       \* the value returned (None until then, and when the call raised)

orbVars == <<call, arg, outcome, ret>>

\* ---- database.main: one ingestion run
VARIABLES
    SMILES_dict,  \* mol_id -> smiles, read from the SMILES file before the loop
    orbitalsDir,  \* mol_id -> "present" / "absent": is there a file <mol_id>.json
    blyp_read,    \* the rows read so far from the BLYP source: [id, E]
    pm7_read,     \* the rows read so far from the PM7 source: [id, E]
    main_pc,      \* "off", "loop", "done", "aborted"
    error         \* the exception that aborted the run ("" while there is none)

ingestVars == <<SMILES_dict, orbitalsDir, blyp_read, pm7_read, main_pc, error>>

\* ---- the DB object's operations, called one after the other
VARIABLES
    last,         \* the last operation called on the DB object, with its outcome
    stdout        \* what the operations have printed

apiVars == <<last, stdout>>

vars == <<dbVars, engineVars, orbVars, ingestVars, apiVars>>

\* funColumnMap of similarity.py: function -> column of the row it compares.
funColumnMap ==
    [orbital_distance |-> 5, structural_distance |-> 4]

Operations ==
    {"sort_by_distance", "get_most_least_similar",
     "deviation_difference_vs_distance", "distance_distribution"}

\* A function that is not a key of funColumnMap.
DistanceFunctions == DOMAIN funColumnMap \cup {"unknown_distance"}

\* column_of_interest = funColumnMap[distance_fun]: a KeyError for a function
\* that is not a key.
lookup_raises(f) == f \notin DOMAIN funColumnMap

\* The statements of an operation before it creates the pair iterator, in
\* their order in the source:
\*   "lookup"     column_of_interest = funColumnMap[distance_fun]
\*   "get_all"    all_ = db.get_all()
\*   "create_dir" create_dir_if_not_exists(outfolder)
\*   "outfile"    outfile = os.path.join(outfolder, today) of
\*                avg_distance_of_k_neighbours, where today is a local variable
\*                of the function that is assigned only further down
prologue(o) ==
    CASE o = "deviation_difference_vs_distance" -> <<"create_dir", "get_all", "lookup">>
      [] o = "avg_distance_of_k_neighbours" -> <<"outfile", "lookup", "get_all">>
      [] OTHER -> <<"lookup", "get_all">>

\* The exception a statement of the prologue raises ("" when it raises none).
exception(step, f) ==
    CASE step = "lookup" /\ lookup_raises(f) -> "KeyError"
      [] step = "outfile" -> "UnboundLocalError"
      [] OTHER -> ""

\* The position of the first statement of the prologue that raises (0: none).
first_raise(o, f) ==
    LET R == {i \in 1..Len(prologue(o)) : exception(prologue(o)[i], f) # ""}
    IN IF R = {} THEN 0 ELSE CHOOSE i \in R : \A j \in R : i <= j

\* The statements of the prologue that were executed to their end.
executed(o, f) ==
    IF first_raise(o, f) = 0 THEN prologue(o)
    ELSE SubSeq(prologue(o), 1, first_raise(o, f) - 1)

IsEffect(step) == step \in {"create_dir", "get_all"}

\* The distance functions compare the values of one column of two rows. The
\* comparable values are integers here and the distance is their difference.
DistanceValue(a, b) == Abs(a - b)

\* distance_fun(x[column_of_interest], y[column_of_interest])
Distance(f, x, y) ==
    DistanceValue(x[funColumnMap[f] + 1], y[funColumnMap[f] + 1])

\* db.get_all(): SELECT * FROM dataset ORDER BY rowid, fetched whole.
get_all(t) == t

\* itertools.combinations(pool, 2) over a pool of n items, as positions:
\* nothing when n < 2, else (1,2), (1,3), ..., (1,n), (2,3), ..., (n-1,n).
combinations_first(n) == IF 2 > n THEN <<>> ELSE <<1, 2>>

combinations_with_replacement_next(ix, n) ==
    IF ix[2] # n THEN <<ix[1], ix[2] + 1>>
    ELSE IF ix[1] # n THEN <<ix[1] + 1, ix[1] + 1>>
    ELSE <<>>

combinations_next(ix, n) ==
    IF ix[2] # n THEN <<ix[1], ix[2] + 1>>
    ELSE IF ix[1] # n - 1 THEN <<ix[1] + 1, ix[1] + 2>>
    ELSE <<>>

\* key=lambda x: x[0] of get_most_least_similar and sort_by_distance
key_first_row(t) == t[2][1]

key(t) == t[1]

\* ---- algo(iterable, k, key): the streaming top-k selector.
\* One element is taken from the stream at a time. Each side keeps at most k
\* candidates; a new element enters a full side only when its key is strictly
\* better than the side's worst candidate, which it then replaces, so among
\* equal keys the first encountered wins.
RECURSIVE InsertAsc(_, _)
InsertAsc(s, x) ==
    IF s = <<>> THEN <<x>>
    ELSE IF key(x) < key(Head(s)) THEN <<x>> \o s
    ELSE <<Head(s)>> \o InsertAsc(Tail(s), x)

RECURSIVE InsertDesc(_, _)
InsertDesc(s, x) ==
    IF s = <<>> THEN <<x>>
    ELSE IF key(x) > key(Head(s)) THEN <<x>> \o s
    ELSE <<Head(s)>> \o InsertDesc(Tail(s), x)

algo_push_small(s, x, kk) ==
    IF Len(s) < kk THEN InsertAsc(s, x)
    ELSE IF kk > 0 /\ key(x) < key(s[Len(s)])
         THEN InsertAsc(SubSeq(s, 1, Len(s) - 1), x)
    ELSE s

algo_push_large(s, x, kk) ==
    IF Len(s) < kk THEN InsertDesc(s, x)
    ELSE IF kk > 0 /\ key(x) > key(s[Len(s)])
         THEN InsertDesc(SubSeq(s, 1, Len(s) - 1), x)
    ELSE s

\* sorted(distances, key=lambda x: x[0], reverse=descending): stable in both
\* directions (equal keys keep their input order).
RECURSIVE sorted_unstable(_, _)
sorted_unstable(s, reverse) ==
    IF s = <<>> THEN <<>>
    ELSE IF reverse
         THEN InsertDesc(sorted_unstable(Tail(s), reverse), Head(s))
         ELSE InsertAsc(sorted_unstable(Tail(s), reverse), Head(s))

RECURSIVE sorted(_, _)
sorted(s, reverse) ==
    IF s = <<>> THEN <<>>
    ELSE IF reverse
         THEN InsertDesc(sorted(SubSeq(s, 1, Len(s) - 1), reverse), s[Len(s)])
         ELSE InsertAsc(sorted(SubSeq(s, 1, Len(s) - 1), reverse), s[Len(s)])

\* What one pair adds to the list / array the operation builds: the triple
\* for sort_by_distance, the distance D_ij for the two numpy arrays (the Y_ij
\* that deviation_difference_vs_distance puts beside it comes from the
\* regression, not from the pairs). The lazy map of get_most_least_similar
\* builds none: its triples go to algo only.
materialize_all(o, ds, t) ==
    IF o \in {"sort_by_distance", "get_most_least_similar"} THEN Append(ds, t)
    ELSE Append(ds, t[1])

materialize(o, ds, t) ==
    CASE o = "sort_by_distance" -> Append(ds, t)
      [] o = "get_most_least_similar" -> ds
      [] OTHER -> Append(ds, t[1])

\* ---- the datasets the engine is run on
EngineRow(i, f, v) ==
    DatasetItem(i, 0, 0, "smiles",
                IF f = "structural_distance" THEN v ELSE 0,
                IF f = "orbital_distance" THEN v ELSE 0)

EngineInit ==
    /\ distance_fun \in DistanceFunctions
    /\ \E n \in 0..MaxN : \E v \in [1..n -> 0..MaxVal] :
          table = [i \in 1..n |-> EngineRow(i, distance_fun, v[i])]
    /\ durable = table
    /\ op = "none"
    /\ k = 0
    /\ descending = FALSE
    /\ pc = "idle"
    /\ raised = ""
    /\ effects = <<>>
    /\ cancelled_at = -1
    /\ all_ = <<>>
    /\ indices = <<>>
    /\ calls = <<>>
    /\ distances = <<>>
    /\ small = <<>>
    /\ large = <<>>
    /\ result = None

\* The call of an operation, up to the creation of the pair iterator or to
\* the exception that ends the call before it.
Start(o, kk, desc) ==
    /\ pc = "idle"
    /\ op' = o
    /\ k' = kk
    /\ descending' = desc
    /\ effects' = SelectSeq(executed(o, distance_fun), IsEffect)
    /\ all_' = IF "get_all" \in Range(executed(o, distance_fun))
               THEN get_all(table) ELSE all_
    /\ IF first_raise(o, distance_fun) = 0
       THEN /\ indices' = combinations_first(Len(table))
            /\ pc' = "pairs"
            /\ UNCHANGED raised
       ELSE /\ raised' = exception(prologue(o)[first_raise(o, distance_fun)], distance_fun)
            /\ pc' = "error"
            /\ UNCHANGED indices
    /\ UNCHANGED <<distance_fun, cancelled_at, calls, distances, small, large, result>>

StartCall ==
    \/ \E o \in Operations \ {"get_most_least_similar", "sort_by_distance"} :
          Start(o, 0, FALSE)
    \/ \E desc \in BOOLEAN : Start("sort_by_distance", 0, desc)
    \/ \E kk \in 1..MaxK : Start("get_most_least_similar", kk, FALSE)
    \/ \E kk \in 1..MaxK : Start("avg_distance_of_k_neighbours", kk, FALSE)

\* The caller asks the running operation to stop. No statement of
\* similarity.py reads such a request.
RequestCancel ==
    /\ pc = "pairs"
    /\ cancelled_at = -1
    /\ cancelled_at' = Len(calls)
    /\ UNCHANGED <<distance_fun, op, k, descending, pc, raised, effects,
                   all_, indices, calls, distances, small, large, result>>

\* One iteration of the loop over pairs: the next pair is drawn, its
\* distance evaluated, and the operation takes the result.
PairStep ==
    /\ pc = "pairs"
    /\ indices # <<>>
    /\ LET x == all_[indices[1]]
           y == all_[indices[2]]
           t == <<Distance(distance_fun, x, y), x, y>>
       IN /\ calls' = Append(calls, indices)
          /\ distances' = materialize(op, distances, t)
          /\ IF op = "get_most_least_similar"
             THEN /\ small' = algo_push_small(small, t, k)
                  /\ large' = algo_push_large(large, t, k)
             ELSE UNCHANGED <<small, large>>
    /\ indices' = combinations_next(indices, Len(all_))
    /\ UNCHANGED <<distance_fun, op, k, descending, pc, raised, effects,
                   cancelled_at, all_, result>>

\* The pairs are exhausted: the operation returns.
Finish ==
    /\ pc = "pairs"
    /\ indices = <<>>
    /\ result' = CASE op = "sort_by_distance" -> sorted(distances, descending)
                   [] op = "get_most_least_similar" -> <<large, small>>
                   [] OTHER -> distances
    /\ pc' = "done"
    /\ UNCHANGED <<distance_fun, op, k, descending, raised, effects, cancelled_at,
                   all_, indices, calls, distances, small, large>>

\* ------------------------------------------------- orbital_calculations
\* sum of the values of a function with a finite domain
RECURSIVE Sum(_)
Sum(f) ==
    IF DOMAIN f = {} THEN 0
    ELSE LET x == CHOOSE x \in DOMAIN f : TRUE
         IN f[x] + Sum([y \in DOMAIN f \ {x} |-> f[y]])

\* PointMass(mass, coords)
PM(m, c) == [mass |-> m, coords |-> c]

Dot(r, s) == r[1] * s[1] + r[2] * s[2] + r[3] * s[3]

Delta(i, j) == IF i = j THEN 1 ELSE 0

ZeroTensor == [i \in 1..3 |-> [j \in 1..3 |-> 0]]

ZeroVector == <<0, 0, 0>>

\* the contribution of one point mass to the tensor about the origin:
\* m * (delta_ij * r.r - r_i * r_j)
PointTensor(p) ==
    [i \in 1..3 |-> [j \in 1..3 |->
        p.mass * (Delta(i, j) * Dot(p.coords, p.coords) - p.coords[i] * p.coords[j])]]

\* ---- calc_center_of_mass(points): sum(m_i * r_i) / sum(m_i), raising a
\* defined error when the masses sum to zero. The quotient is kept exact, as
\* the numerator vector and the denominator.
RECURSIVE WeightedSum(_)
WeightedSum(points) ==
    IF points = <<>> THEN ZeroVector
    ELSE LET p == Head(points)
             rest == WeightedSum(Tail(points))
         IN [i \in 1..3 |-> p.mass * p.coords[i] + rest[i]]

RECURSIVE CoordSum(_)
CoordSum(points) ==
    IF points = <<>> THEN ZeroVector
    ELSE LET p == Head(points)
             rest == CoordSum(Tail(points))
         IN [i \in 1..3 |-> p.coords[i] + rest[i]]

RECURSIVE TotalMass(_)
TotalMass(points) ==
    IF points = <<>> THEN 0 ELSE Head(points).mass + TotalMass(Tail(points))

\* the division done without looking at the divisor: a zero divisor gives
\* NaN or an infinity in every component
calc_center_of_mass_unchecked(points) ==
    [outcome |-> "returned",
     value |-> [num |-> WeightedSum(points), den |-> TotalMass(points)]]

\* the mean of the positions, the masses ignored
calc_center_of_mass_unweighted(points) ==
    IF TotalMass(points) = 0
    THEN [outcome |-> "raised", value |-> None]
    ELSE [outcome |-> "returned",
          value |-> [num |-> CoordSum(points), den |-> Len(points)]]

calc_center_of_mass(points) ==
    IF TotalMass(points) = 0
    THEN [outcome |-> "raised", value |-> None]
    ELSE [outcome |-> "returned",
          value |-> [num |-> WeightedSum(points), den |-> TotalMass(points)]]

\* ---- calc_inertia_tensor(points): the sum of the points' contributions,
\* about the origin of the frame the coordinates are given in.
RECURSIVE TensorAbout(_, _)
TensorAbout(points, origin) ==
    IF points = <<>> THEN ZeroTensor
    ELSE LET p == Head(points)
             q == PM(p.mass, [i \in 1..3 |-> p.coords[i] - origin[i]])
             rest == TensorAbout(Tail(points), origin)
         IN [i \in 1..3 |-> [j \in 1..3 |-> PointTensor(q)[i][j] + rest[i][j]]]

\* the tensor about the center of mass (where that is a lattice point),
\* the points recentered first
calc_inertia_tensor_recentered(points) ==
    LET M == TotalMass(points)
        W == WeightedSum(points)
    IN IF M > 0 /\ \A i \in 1..3 : W[i] % M = 0
       THEN TensorAbout(points, [i \in 1..3 |-> W[i] \div M])
       ELSE TensorAbout(points, ZeroVector)

calc_inertia_tensor(points) == TensorAbout(points, ZeroVector)

\* ---- homoLumoNumbersFromJson(mapping)
\* The mapping is the sequence of its (key, value) entries in stored order.
\* Keys are strings; int(key) succeeds on the numerals and fails on every
\* other key.
Numerals == <<"1", "2", "3", "4", "5", "6">>

\* the orbital indices of the test's mappings
TestNumerals == {"24", "55", "56"}

IsIntKey(key_) == key_ \in Range(Numerals) \cup TestNumerals

int(key_) ==
    CASE key_ = "24" -> 24
      [] key_ = "55" -> 55
      [] key_ = "56" -> 56
      [] OTHER -> CHOOSE n \in 1..Len(Numerals) : Numerals[n] = key_

\* Python's False, which the function returns for an absent LUMO (False == 0;
\* orbital indices start at 1)
False == 0

\* HOMO: the largest integer key whose record is occupied, found by a scan
RECURSIVE ScanHomo(_, _)
ScanHomo(m, homo) ==
    IF m = <<>> THEN homo
    ELSE LET e == Head(m)
         IN IF IsIntKey(e.key) /\ e.value.occupied /\ int(e.key) > homo
            THEN ScanHomo(Tail(m), int(e.key))
            ELSE ScanHomo(Tail(m), homo)

\* LUMO: the smallest integer key above HOMO whose record is unoccupied
RECURSIVE ScanLumo(_, _, _)
ScanLumo(m, homo, lumo) ==
    IF m = <<>> THEN lumo
    ELSE LET e == Head(m)
         IN IF /\ IsIntKey(e.key)
               /\ ~e.value.occupied
               /\ int(e.key) > homo
               /\ (lumo = False \/ int(e.key) < lumo)
            THEN ScanLumo(Tail(m), homo, int(e.key))
            ELSE ScanLumo(Tail(m), homo, lumo)

\* LUMO taken as the smallest unoccupied integer key, wherever HOMO is
homoLumoNumbersFromJson_any_unoccupied(m) ==
    <<ScanHomo(m, 0), ScanLumo(m, 0, False)>>

homoLumoNumbersFromJson(m) ==
    <<ScanHomo(m, 0), ScanLumo(m, ScanHomo(m, 0), False)>>

\* ---- the inputs
\* coordinates, in units of the side of the test's square
Coords ==
    {<<0, 0, 0>>, <<0, 1, 0>>, <<1, 0, 0>>, <<1, 1, 0>>, <<-1, 0, 0>>, <<0, 0, 1>>}

\* masses, in units of a mass unit u
Masses == {-1, 0, 1, 2}

\* test_calc_inertia_tensor: four masses of 0.25 (u = 0.25) at the corners of
\* the unit square
SquareMasses ==
    <<PM(1, <<0, 0, 0>>), PM(1, <<0, 1, 0>>), PM(1, <<1, 0, 0>>), PM(1, <<1, 1, 0>>)>>

\* the tensor the test expects, in units of u: xx = yy = 2m, zz = 2xx, xy = yx = -m
SquareExpected ==
    <<<<2, -1, 0>>, <<-1, 2, 0>>, <<0, 0, 4>>>>

\* test_calc_center_of_mass: three unit masses (u = 1) on a line
LineMasses ==
    <<PM(1, <<0, 0, 0>>), PM(1, <<-1, 0, 0>>), PM(1, <<1, 0, 0>>)>>

PointLists ==
    UNION {[1..n -> {PM(m, c) : m \in Masses, c \in Coords}] : n \in 0..MaxPoints}
        \cup {SquareMasses, LineMasses}

\* the keys of a mapping: orbital indices and the sibling key atomic_coords
Keys == {Numerals[n] : n \in 1..MaxOrb} \cup {"atomic_coords"}

Entry(key_, occ) ==
    IF IsIntKey(key_) THEN [key |-> key_, value |-> [occupied |-> occ]]
    ELSE [key |-> key_, value |-> <<1, 2, 3>>]

\* the four mappings of test_homo_lumo_numbers_from_json
TestMapping1 == <<Entry("1", TRUE), Entry("2", FALSE)>>

TestMapping2 == <<Entry("24", TRUE), Entry("atomic_coords", FALSE), Entry("56", FALSE)>>

TestMapping3 == <<Entry("56", FALSE), Entry("atomic_coords", FALSE), Entry("55", TRUE)>>

TestMapping4 == <<Entry("24", TRUE), Entry("atomic_coords", FALSE), Entry("56", TRUE)>>

\* mappings: distinct keys in any stored order, any occupancies, at least one
\* occupied orbital; and the test's
Mappings ==
    {TestMapping1, TestMapping2, TestMapping3, TestMapping4} \cup
    {m \in UNION {[1..n -> {Entry(q, b) : q \in Keys, b \in BOOLEAN}] :
                     n \in 1..(MaxOrb + 1)} :
        /\ \A i, j \in 1..Len(m) : i # j => m[i].key # m[j].key
        /\ \E i \in 1..Len(m) : IsIntKey(m[i].key) /\ m[i].value.occupied}

OrbIdle ==
    /\ call = "none"
    /\ arg = <<>>
    /\ outcome = "pending"
    /\ ret = None

OrbInit ==
    /\ \/ call = "homoLumoNumbersFromJson" /\ arg \in Mappings
       \/ call = "calc_inertia_tensor" /\ arg \in PointLists
       \/ call = "calc_center_of_mass" /\ arg \in PointLists
    /\ outcome = "pending"
    /\ ret = None

ApplyHomoLumo ==
    /\ call = "homoLumoNumbersFromJson"
    /\ outcome = "pending"
    /\ outcome' = "returned"
    /\ ret' = homoLumoNumbersFromJson(arg)
    /\ UNCHANGED <<call, arg>>

ApplyInertiaTensor ==
    /\ call = "calc_inertia_tensor"
    /\ outcome = "pending"
    /\ outcome' = "returned"
    /\ ret' = calc_inertia_tensor(arg)
    /\ UNCHANGED <<call, arg>>

ApplyCenterOfMass ==
    /\ call = "calc_center_of_mass"
    /\ outcome = "pending"
    /\ outcome' = calc_center_of_mass(arg).outcome
    /\ ret' = calc_center_of_mass(arg).value
    /\ UNCHANGED <<call, arg>>


\* ------------------------------------------------------------ database.py
\* ---- DB: writing operations
\* add_dataset_row: INSERT INTO dataset VALUES (?,?,?,?,?,?); the new row
\* takes the next rowid. float() leaves the energies, already floats, as they are.
add_dataset_row(t, row) ==
    Append(t, DatasetItem(row[1], row[2], row[3], row[4], row[5], row[6]))

\* add_dataset: add_dataset_row for each item in turn (the commit follows)
RECURSIVE add_dataset(_, _)
add_dataset(t, dataset) ==
    IF dataset = <<>> THEN t
    ELSE add_dataset(add_dataset_row(t, Head(dataset)), Tail(dataset))

\* ---- DB.get_row_from_mol_id
\* SELECT * FROM dataset WHERE mol_id='<mol_id>': the matching rows, which
\* the scan of the table yields in rowid order.
RECURSIVE select_mol_id(_, _)
select_mol_id(t, mol_id) ==
    IF t = <<>> THEN <<>>
    ELSE IF Head(t)[1] = mol_id
         THEN <<Head(t)>> \o select_mol_id(Tail(t), mol_id)
         ELSE select_mol_id(Tail(t), mol_id)

\* the last match returned instead of the first
get_row_from_mol_id_last(t, mol_id) ==
    LET fetch == select_mol_id(t, mol_id)
    IN [op |-> "get_row_from_mol_id",
        arg |-> mol_id,
        outcome |-> IF Len(fetch) = 0 THEN "raised" ELSE "returned",
        value |-> IF Len(fetch) = 0 THEN None ELSE fetch[Len(fetch)],
        printed |-> IF Len(fetch) > 1 THEN <<"WARNING">> ELSE <<>>]

\* the call and its outcome: a warning is printed when more than one row
\* matches, fetch[0] is returned, and fetch[0] of no row raises IndexError
get_row_from_mol_id(t, mol_id) ==
    LET fetch == select_mol_id(t, mol_id)
    IN [op |-> "get_row_from_mol_id",
        arg |-> mol_id,
        outcome |-> IF Len(fetch) = 0 THEN "raised" ELSE "returned",
        value |-> IF Len(fetch) = 0 THEN None ELSE fetch[1],
        printed |-> IF Len(fetch) > 1 THEN <<"WARNING">> ELSE <<>>]

\* ---- DB: the full-scan reads
\* DB.PM7 and DB.BLYP, the names of the energy columns
PM7 == "E_pm7"

BLYP == "E_blyp"

\* the position of a column of the dataset table in its rows
column_of(name) ==
    CASE name = "mol_id" -> 1
      [] name = "E_pm7" -> 2
      [] name = "E_blyp" -> 3
      [] name = "smiles" -> 4
      [] name = "rdk_fingerprint" -> 5
      [] name = "serialized_molecular_orbital" -> 6

\* self.cur.execute("SELECT <col> FROM dataset ORDER BY `rowid`").fetchall():
\* a list of 1-tuples, one for each row, in rowid order
select(t, col) == [i \in 1..Len(t) |-> <<t[i][column_of(col)]>>]

\* get_all_cursor: SELECT * FROM dataset ORDER BY `rowid`; the rows the
\* cursor yields
get_all_cursor(t) == t

\* [x[0] for x in r.fetchall()]
first_of_each(fetch) ==
    [outcome |-> "returned", value |-> [i \in 1..Len(fetch) |-> fetch[i][1]]]

\* np.asarray(r.fetchall())[:,0]: the array of an empty list has one
\* dimension, and indexing it with two raises IndexError
asarray_first_column(fetch) ==
    IF fetch = <<>> THEN [outcome |-> "raised", value |-> <<"IndexError">>]
    ELSE [outcome |-> "returned", value |-> [i \in 1..Len(fetch) |-> fetch[i][1]]]

base_get_energies(t, energy) ==
    asarray_first_column(select(t, IF energy = PM7 THEN "E_pm7" ELSE "E_blyp"))

Readers ==
    {"get_all", "get_all_cursor", "get_mol_ids", "get_blyp_energies",
     "get_pm7_energies", "get_smiles", "get_fingerprints", "get_molecular_orbitals"}

\* the outcome of a full-scan read of the table
full_scan(reader, t) ==
    CASE reader = "get_all" -> [outcome |-> "returned", value |-> get_all(t)]
      [] reader = "get_all_cursor" -> [outcome |-> "returned", value |-> get_all_cursor(t)]
      [] reader = "get_mol_ids" -> first_of_each(select(t, "mol_id"))
      [] reader = "get_blyp_energies" -> base_get_energies(t, BLYP)
      [] reader = "get_pm7_energies" -> base_get_energies(t, PM7)
      [] reader = "get_smiles" -> asarray_first_column(select(t, "smiles"))
      [] reader = "get_fingerprints" -> first_of_each(select(t, "rdk_fingerprint"))
      [] reader = "get_molecular_orbitals" ->
            first_of_each(select(t, "serialized_molecular_orbital"))

\* ---- the rows the operations are called with
MolIds == {"ZINC01", "ZINC02"}

Energies == {1, 2}

\* serialize() of the HOMO read from the orbital file of a molecule
serialize(mol_id) == <<"homo of", mol_id>>

\* (a row of PM7 energy 1 has a null descriptor, the others have one)
ApiRows ==
    {DatasetItem(id, e, 0, "C", "fp", IF e = 1 THEN None ELSE <<"mo">>) :
        id \in MolIds, e \in Energies}

NoCall == [op |-> "none"]

ApiIdle ==
    /\ last = NoCall
    /\ stdout = <<>>

ApiInit ==
    /\ table = <<>>
    /\ durable = <<>>
    /\ last = NoCall
    /\ stdout = <<>>

AddDatasetRow ==
    /\ Len(table) < MaxTable
    /\ \E row \in ApiRows :
          /\ table' = add_dataset_row(table, row)
          /\ last' = [op |-> "add_dataset_row", arg |-> row]
    /\ UNCHANGED <<durable, stdout>>

AddDataset ==
    /\ \E n \in 0..(MaxTable - Len(table)) : \E dataset \in [1..n -> ApiRows] :
          /\ table' = add_dataset(table, dataset)
          /\ durable' = table'
          /\ last' = [op |-> "add_dataset", arg |-> dataset]
    /\ UNCHANGED stdout

Commit ==
    /\ durable # table
    /\ durable' = table
    /\ last' = [op |-> "commit"]
    /\ UNCHANGED <<table, stdout>>

GetRowFromMolId ==
    /\ \E mol_id \in MolIds :
          /\ last' = get_row_from_mol_id(table, mol_id)
          /\ stdout' = stdout \o last'.printed
    /\ Len(stdout) < MaxTable
    /\ UNCHANGED <<table, durable>>

FullScan ==
    /\ \E reader \in Readers :
          last' = [op |-> reader,
                   outcome |-> full_scan(reader, table).outcome,
                   value |-> full_scan(reader, table).value]
    /\ UNCHANGED <<table, durable, stdout>>

\* ---- the orbital descriptor column: adapter and converter
\* Python values, each with its type: None, <<"bool", b>>, <<"int", n>>,
\* <<"float", x>>, <<"str", s>>, <<"list", items>>, <<"tuple", items>> and
\* <<"dict", entries>>, the entries <<key, value>> in insertion order.
\* JSON text, as its syntax tree: <<"null">>, <<"true">>, <<"false">>,
\* <<"number", kind, x>> (kind "int" for 1, "float" for 1.0),
\* <<"string", s>>, <<"array", items>> and <<"object", members>>, the members
\* <<name, value>> with a string for name.

\* the name json.dumps writes for a dict key: a str key as it is, an int key
\* as its decimal text
json_key(key_) ==
    IF key_[1] = "int" THEN Numerals[key_[2]] ELSE key_[2]

\* json.dumps(obj)
RECURSIVE json_dumps(_)
json_dumps(obj) ==
    CASE obj[1] = "None" -> <<"null">>
      [] obj[1] = "bool" -> IF obj[2] THEN <<"true">> ELSE <<"false">>
      [] obj[1] \in {"int", "float"} -> <<"number", obj[1], obj[2]>>
      [] obj[1] = "str" -> <<"string", obj[2]>>
      [] obj[1] \in {"list", "tuple"} ->
            <<"array", [i \in 1..Len(obj[2]) |-> json_dumps(obj[2][i])]>>
      [] obj[1] = "dict" ->
            <<"object", [i \in 1..Len(obj[2]) |->
                            <<json_key(obj[2][i][1]), json_dumps(obj[2][i][2])>>]>>

\* json.loads(s): every name of an object comes back as a str key and every
\* array as a list
RECURSIVE json_loads(_)
json_loads(text) ==
    CASE text[1] = "null" -> None
      [] text[1] = "true" -> <<"bool", TRUE>>
      [] text[1] = "false" -> <<"bool", FALSE>>
      [] text[1] = "number" -> <<text[2], text[3]>>
      [] text[1] = "string" -> <<"str", text[2]>>
      [] text[1] = "array" ->
            <<"list", [i \in 1..Len(text[2]) |-> json_loads(text[2][i])]>>
      [] text[1] = "object" ->
            <<"dict", [i \in 1..Len(text[2]) |->
                          <<<<"str", text[2][i][1]>>, json_loads(text[2][i][2])>>]>>

adapt_serialized_molecular_orbital(serialized_molecular_orbital) ==
    json_dumps(serialized_molecular_orbital)

\* the stored text handed back as a str, unparsed
convert_serialized_molecular_orbital_unparsed(serialized_mo) ==
    <<"str", serialized_mo>>

convert_serialized_molecular_orbital(serialized_mo) ==
    json_loads(serialized_mo)

\* SQL NULL
NULL == <<"NULL">>

\* The value bound to the descriptor column of an INSERT: None is bound as
\* NULL (no adapter is called for it), a descriptor goes through the adapter
\* registered for its type.
bind_descriptor(d) ==
    IF d = None THEN NULL ELSE adapt_serialized_molecular_orbital(d)

\* The value a SELECT yields for the column, declared
\* type_serialized_molecular_orbital: NULL is returned as None (no converter
\* is called for it), anything else goes through the registered converter.
fetch_descriptor(stored) ==
    IF stored = NULL THEN None ELSE convert_serialized_molecular_orbital(stored)

\* ---- the descriptors written to a row
\* atoms of a molecule, the keys of atomic_contributions: "1".."MaxAtoms"
MaxAtoms == 2

\* One orbital's entry of the orbital file: {occupied, eigenvalue,
\* atomic_contributions: atom index -> contribution}.
OrbitalData(occupied, eigenvalue, contributions) ==
    <<"dict", << <<<<"str", "occupied">>, <<"bool", occupied>>>>,
                 <<<<"str", "eigenvalue">>, <<"float", eigenvalue>>>>,
                 <<<<"str", "atomic_contributions">>,
                   <<"dict", [a \in 1..Len(contributions) |->
                                <<<<"str", Numerals[a]>>, <<"float", contributions[a]>>>>]>>>> >> >>

\* serialize() of an orbital: orbital index -> its data; or None
Descriptors ==
    {None} \cup
    { <<"dict", << <<<<"str", index>>, OrbitalData(occ, e, c)>> >> >> :
        index \in {"1", "2"}, occ \in BOOLEAN, e \in {-1, 0},
        c \in UNION {[1..n -> {0, 1}] : n \in 0..MaxAtoms} }

\* a descriptor is written to a row, then read back
StorageInit ==
    /\ call = "store"
    /\ arg \in Descriptors
    /\ outcome = "pending"
    /\ ret = None

\* INSERT INTO dataset VALUES (..., ?): the descriptor is bound
StoreDescriptor ==
    /\ call = "store"
    /\ outcome = "pending"
    /\ outcome' = "stored"
    /\ ret' = bind_descriptor(arg)
    /\ UNCHANGED <<call, arg>>

\* SELECT ...: the stored value is fetched
FetchDescriptor ==
    /\ call = "store"
    /\ outcome = "stored"
    /\ outcome' = "fetched"
    /\ ret' = fetch_descriptor(ret)
    /\ UNCHANGED <<call, arg>>

\* ---- main(database_path, orbitalsDir, BLYP_energies_file, PM7_energies_file, SMILES_file)
Smiles == {"CCO", "not a molecule"}

\* fingerprint_from_smiles(smiles, Consts.RDK_FP): an ExplicitBitVect, or
\* something else when the toolkit cannot read the smiles
fingerprint_from_smiles(smiles) ==
    IF smiles = "CCO" THEN <<"ExplicitBitVect", smiles>> ELSE None

isinstance_ExplicitBitVect(fp) == fp # None

\* atomic_units2eV(float(E)): the energy of the source row, converted
atomic_units2eV(e) == <<"eV", e>>

\* blyp_mol_id != pm7_mol_id (both stripped)
mol_ids_differ_ignored(blyp_mol_id, pm7_mol_id) == FALSE

mol_ids_differ(blyp_mol_id, pm7_mol_id) == blyp_mol_id # pm7_mol_id

\* the try block without its except clause: the missing file aborts the run
load_orbital_uncaught(dir, mol_id) ==
    IF dir[mol_id] = "absent"
    THEN [raised |-> TRUE, value |-> None]
    ELSE [raised |-> FALSE, value |-> serialize(mol_id)]

\* try: MolecularOrbital.fromJsonFile(<orbitalsDir>/<mol_id>.json, HOMO).serialize()
\* except FileNotFoundError: None
load_orbital(dir, mol_id) ==
    IF dir[mol_id] = "absent"
    THEN [raised |-> FALSE, value |-> None]
    ELSE [raised |-> FALSE, value |-> serialize(mol_id)]

SourceRows == {[id |-> i, E |-> e] : i \in MolIds, e \in Energies}

\* a row the table held before the run
OldRow == DatasetItem("ZINC00", atomic_units2eV(1), atomic_units2eV(1), "CCO",
                      fingerprint_from_smiles("CCO"), None)

IngestIdle ==
    /\ SMILES_dict = <<>>
    /\ orbitalsDir = <<>>
    /\ blyp_read = <<>>
    /\ pm7_read = <<>>
    /\ main_pc = "off"
    /\ error = ""

\* the state when the loop over the BLYP source is entered: the SMILES file
\* is read, the database opened and the table created if it was not there
IngestInit ==
    /\ table \in {<<>>, <<OldRow>>}
    /\ durable = table
    /\ \E D \in SUBSET MolIds : SMILES_dict \in [D -> Smiles]
    /\ orbitalsDir \in [MolIds -> {"present", "absent"}]
    /\ blyp_read = <<>>
    /\ pm7_read = <<>>
    /\ main_pc = "loop"
    /\ error = ""

\* the exception leaves through a handler that closes the database, and
\* close() commits
Abort_closing(e) ==
    /\ main_pc' = "aborted"
    /\ error' = e
    /\ durable' = table
    /\ UNCHANGED table

\* The exception leaves main: neither db.commit() nor db.close() is reached,
\* and the connection is dropped with its transaction open, which rolls the
\* transaction back.
Abort(e) ==
    /\ main_pc' = "aborted"
    /\ error' = e
    /\ UNCHANGED <<table, durable>>

\* the body of the loop for a row of the BLYP source, up to the exception
\* or the insertion
MainBody(b) ==
    IF mol_ids_differ(b.id, pm7_read'[Len(pm7_read')].id)
    THEN Abort("Exception: blyp_mol_id != pm7_mol_id")
    ELSE IF b.id \notin DOMAIN SMILES_dict
    THEN Abort("KeyError")
    ELSE LET smiles == SMILES_dict[b.id]
             rdk_fingerprint == fingerprint_from_smiles(smiles)
             orbital == load_orbital(orbitalsDir, b.id)
             p == pm7_read'[Len(pm7_read')]
         IN IF ~isinstance_ExplicitBitVect(rdk_fingerprint)
            THEN Abort("Exception: rdk_fingerprint was not instance of ExplicitBitVect")
            ELSE IF orbital.raised
            THEN Abort("FileNotFoundError")
            ELSE /\ table' = add_dataset_row(table,
                                DatasetItem(b.id, atomic_units2eV(p.E), atomic_units2eV(b.E),
                                            smiles, rdk_fingerprint, orbital.value))
                 /\ UNCHANGED <<durable, main_pc, error>>

\* one iteration: a row of the BLYP source, and the next row of the PM7 source
MainStep ==
    /\ main_pc = "loop"
    /\ Len(blyp_read) < MaxRows
    /\ \E b \in SourceRows :
          /\ blyp_read' = Append(blyp_read, b)
          /\ \E p \in SourceRows :
                /\ pm7_read' = Append(pm7_read, p)
                /\ MainBody(b)
    /\ UNCHANGED <<SMILES_dict, orbitalsDir>>

\* one iteration with the PM7 source exhausted: next(pm7_reader) raises
MainStepPm7Exhausted ==
    /\ main_pc = "loop"
    /\ Len(blyp_read) < MaxRows
    /\ \E b \in SourceRows : blyp_read' = Append(blyp_read, b)
    /\ Abort("StopIteration")
    /\ UNCHANGED <<SMILES_dict, orbitalsDir, pm7_read>>

\* the BLYP source is exhausted: db.commit(), db.close()
MainFinish ==
    /\ main_pc = "loop"
    /\ durable' = table
    /\ main_pc' = "done"
    /\ UNCHANGED <<table, SMILES_dict, orbitalsDir, blyp_read, pm7_read, error>>


\* ------------------------------------------------ properties of the engine
\* the positions of the unordered pairs of distinct rows of the snapshot
UnorderedPairs == {p \in SUBSET (1..Len(all_)) : Cardinality(p) = 2}

\* the triples (distance, row_i, row_j) of all the pairs of the snapshot
AllTriples ==
    {<<Distance(distance_fun, all_[i], all_[j]), all_[i], all_[j]>> :
        <<i, j>> \in {q \in (1..Len(all_)) \X (1..Len(all_)) : q[1] < q[2]}}

TripleAt(c) ==
    <<Distance(distance_fun, all_[c[1]], all_[c[2]]), all_[c[1]], all_[c[2]]>>

\* C1: for a dataset of n rows returned by the full scan, the pair enumeration
\* of sort_by_distance, get_most_least_similar, deviation_difference_vs_distance
\* and distance_distribution evaluates the distance function exactly n(n-1)/2
\* times: once for each unordered pair of distinct rows, never for a pair
\* (i, i) and never for both (i, j) and (j, i).
C1_EachPairOnce ==
    /\ \A c \in 1..Len(calls) : calls[c][1] # calls[c][2]
    /\ \A c, d \in 1..Len(calls) :
          c # d => {calls[c][1], calls[c][2]} # {calls[d][1], calls[d][2]}
    /\ pc = "done" =>
          /\ all_ = table
          /\ 2 * Len(calls) = Len(all_) * (Len(all_) - 1)
          /\ \A p \in UnorderedPairs :
                \E c \in 1..Len(calls) : {calls[c][1], calls[c][2]} = p

C1_Witness ==
    /\ pc = "done"
    /\ op = "deviation_difference_vs_distance"
    /\ Len(all_) = 4
    /\ Len(calls) = 6

\* S holds kk triples of the stream and no triple outside S has a smaller key
\* than a triple of S
IsKSmallest(S, kk) ==
    /\ S \subseteq AllTriples
    /\ Cardinality(S) = kk
    /\ \A s \in S : \A t \in AllTriples \ S : s[1] <= t[1]

\* the kk-th smallest and the kk-th largest key of the stream
KthSmallestKey(kk) ==
    CHOOSE v \in {t[1] : t \in AllTriples} :
        /\ Cardinality({t \in AllTriples : t[1] < v}) < kk
        /\ Cardinality({t \in AllTriples : t[1] <= v}) >= kk

KthLargestKey(kk) ==
    CHOOSE v \in {t[1] : t \in AllTriples} :
        /\ Cardinality({t \in AllTriples : t[1] > v}) < kk
        /\ Cardinality({t \in AllTriples : t[1] >= v}) >= kk

MostLeastReturned ==
    /\ pc = "done"
    /\ op = "get_most_least_similar"
    /\ k <= Cardinality(AllTriples)

C3_BoundedRetention ==
    op = "get_most_least_similar" =>
        /\ Len(small) <= k
        /\ Len(large) <= k
        /\ distances = <<>>
        /\ Range(small) \cup Range(large) \subseteq {TripleAt(calls[c]) : c \in 1..Len(calls)}
        /\ \A c, d \in 1..Len(calls) : c # d => calls[c] # calls[d]

C3_Witness ==
    /\ op = "get_most_least_similar"
    /\ pc = "pairs"
    /\ k = 1
    /\ Len(calls) = 5
    /\ Len(small) = 1
    /\ Len(large) = 1

\* the five operations of similarity.py that compare the rows pairwise
PairwiseOperations == Operations \cup {"avg_distance_of_k_neighbours"}

\* C11: in every pairwise operation (sort_by_distance, get_most_least_similar,
\* deviation_difference_vs_distance, distance_distribution,
\* avg_distance_of_k_neighbours) a distance function that is not a key of
\* funColumnMap ends the call with an error at its start: before the dataset
\* is read, before an output directory or file is created and before a pair
\* distance is evaluated.
C11_UnknownFunctionFailsFirst ==
    (op \in PairwiseOperations /\ lookup_raises(distance_fun)) =>
        /\ pc = "error"
        /\ effects = <<>>
        /\ all_ = <<>>
        /\ calls = <<>>

\* the N of C14: the pair evaluations an operation may still make once it was
\* asked to stop
MaxCancelLag == 2

\* C14: once cancellation is requested while pairs are being processed, the
\* engine stops after at most N further pair evaluations, N fixed and
\* independent of the number of rows. (The claim also has the engine report
\* its progress as (pairs processed, total pairs); this is the part on
\* cancellation.)
C14_StopsAfterCancel ==
    cancelled_at # -1 => Len(calls) - cancelled_at <= MaxCancelLag

\* the position in the enumeration of the pair a triple was built from
EnumerationPosition(t) ==
    CHOOSE c \in 1..Len(calls) : TripleAt(calls[c]) = t

\* C15: sort_by_distance returns a list with exactly one triple
\* (distance, row_i, row_j) for each unordered pair of rows, in order of
\* non-decreasing distance by default and of non-increasing distance with
\* descending=True; in both directions triples of equal distance keep the
\* order in which their pairs were enumerated.
C15_SortedStable ==
    (op = "sort_by_distance" /\ pc = "done") =>
        /\ Len(result) = Cardinality(UnorderedPairs)
        /\ \A i, j \in 1..Len(all_) :
              i < j => Cardinality({r \in 1..Len(result) :
                                      result[r] = TripleAt(<<i, j>>)}) = 1
        /\ \A r, s \in 1..Len(result) :
              r < s =>
                /\ descending => result[r][1] >= result[s][1]
                /\ ~descending => result[r][1] <= result[s][1]
                /\ result[r][1] = result[s][1] =>
                      EnumerationPosition(result[r]) < EnumerationPosition(result[s])

\* a descending sort of six triples, with two triples of equal distance at the
\* head of the list and a smaller distance at its end
C15_Witness ==
    /\ op = "sort_by_distance"
    /\ pc = "done"
    /\ descending
    /\ Len(result) = 6
    /\ result[1][1] = result[2][1]
    /\ result[1][1] > result[6][1]
    /\ EnumerationPosition(result[1]) < EnumerationPosition(result[2])

\* the distances from row x of the table to the other rows, ascending
RECURSIVE InsertValue(_, _)
InsertValue(s, v) ==
    IF s = <<>> THEN <<v>>
    ELSE IF v < Head(s) THEN <<v>> \o s
    ELSE <<Head(s)>> \o InsertValue(Tail(s), v)

RECURSIVE DistancesToOthers(_, _)
DistancesToOthers(x, n) ==
    IF n = 0 THEN <<>>
    ELSE IF n = x THEN DistancesToOthers(x, n - 1)
    ELSE InsertValue(DistancesToOthers(x, n - 1),
                     Distance(distance_fun, table[x], table[n]))

RECURSIVE SumSeq(_)
SumSeq(s) == IF s = <<>> THEN 0 ELSE Head(s) + SumSeq(Tail(s))

\* C16: for a dataset of n >= 2 rows, 1 <= k <= n-1 and every row x, the
\* per-point value computed by avg_distance_of_k_neighbours is the arithmetic
\* mean of the k smallest distances from x to the n-1 other rows.
C16_MeanOfKNearest ==
    ( /\ op = "avg_distance_of_k_neighbours"
      /\ ~lookup_raises(distance_fun)
      /\ Len(table) >= 2
      /\ k <= Len(table) - 1 ) =>
        /\ pc = "done"
        /\ \A x \in 1..Len(table) :
              result[x] = [num |-> SumSeq(SubSeq(DistancesToOthers(x, Len(table)), 1, k)),
                           den |-> k]


\* ------------------------------------- properties of orbital_calculations
Max(S) == CHOOSE x \in S : \A y \in S : y <= x

Min(S) == CHOOSE x \in S : \A y \in S : x <= y

\* the decimal text of an orbital index
Decimal(n) ==
    CASE n \in 1..6 -> <<"1", "2", "3", "4", "5", "6">>[n]
      [] n = 24 -> "24"
      [] n = 55 -> "55"
      [] n = 56 -> "56"
      [] OTHER -> "no key"

\* the integer keys of a mapping whose record has the given occupancy
KeysWithOccupancy(m, occ) ==
    {n \in 1..56 :
        \E i \in 1..Len(m) : m[i].key = Decimal(n) /\ m[i].value.occupied = occ}

Returned(f) == call = f /\ outcome = "returned"

\* C4: for every mapping, in whatever order its keys are stored,
\* homoLumoNumbersFromJson looks only at the keys that parse as integers and
\* returns HOMO = the largest integer key whose record is occupied and LUMO =
\* the smallest integer key above HOMO whose record is unoccupied, or False
\* when there is none.
C4_HomoLumo ==
    Returned("homoLumoNumbersFromJson") =>
        LET homo == Max(KeysWithOccupancy(arg, TRUE))
            above == {n \in KeysWithOccupancy(arg, FALSE) : n > homo}
        IN /\ ret[1] = homo
           /\ ret[2] = IF above = {} THEN False ELSE Min(above)
           /\ arg = TestMapping1 => ret = <<1, 2>>
           /\ arg = TestMapping2 => ret = <<24, 56>>
           /\ arg = TestMapping3 => ret = <<55, 56>>
           /\ arg = TestMapping4 => ret = <<56, False>>

\* a mapping stored out of order, with the key atomic_coords and with an
\* unoccupied orbital below HOMO
C4_Witness ==
    /\ Returned("homoLumoNumbersFromJson")
    /\ Len(arg) = 4
    /\ arg[1].key = "3"
    /\ arg[2].key = "atomic_coords"
    /\ arg[3].key = "1"
    /\ ~arg[3].value.occupied
    /\ ret = <<2, 3>>

\* the sum over the points of a list of a term of each point
SumOver(points, term(_)) == Sum([n \in 1..Len(points) |-> term(points[n])])

X(p) == p.coords[1]
Y(p) == p.coords[2]
Z(p) == p.coords[3]

\* C5: for every finite list of point masses, in any order,
\* calc_inertia_tensor returns the tensor about the origin of the frame the
\* coordinates are given in, T[i][j] = sum of m (delta_ij r.r - r_i r_j), the
\* center of mass not subtracted; the four masses of 0.25 at the corners of
\* the unit square give xx = yy = 0.5, zz = 1.0, xy = yx = -0.25, the rest 0.
C5_InertiaAboutOrigin ==
    Returned("calc_inertia_tensor") =>
        /\ ret[1][1] = SumOver(arg, LAMBDA p : p.mass * (Y(p) * Y(p) + Z(p) * Z(p)))
        /\ ret[2][2] = SumOver(arg, LAMBDA p : p.mass * (X(p) * X(p) + Z(p) * Z(p)))
        /\ ret[3][3] = SumOver(arg, LAMBDA p : p.mass * (X(p) * X(p) + Y(p) * Y(p)))
        /\ ret[1][2] = SumOver(arg, LAMBDA p : -(p.mass * X(p) * Y(p)))
        /\ ret[1][3] = SumOver(arg, LAMBDA p : -(p.mass * X(p) * Z(p)))
        /\ ret[2][3] = SumOver(arg, LAMBDA p : -(p.mass * Y(p) * Z(p)))
        /\ ret[2][1] = ret[1][2]
        /\ ret[3][1] = ret[1][3]
        /\ ret[3][2] = ret[2][3]
        /\ arg = SquareMasses => ret = <<<<2, -1, 0>>, <<-1, 2, 0>>, <<0, 0, 4>>>>

C5_Witness ==
    /\ Returned("calc_inertia_tensor")
    /\ arg = SquareMasses
    /\ ret = SquareExpected

\* C6: for every non-empty list of point masses whose total mass is not zero,
\* calc_center_of_mass returns the vector sum(m_i r_i) / sum(m_i); three unit
\* masses at (-1,0,0), (0,0,0), (1,0,0) give (0,0,0).
C6_CenterOfMass ==
    (/\ call = "calc_center_of_mass"
     /\ outcome # "pending"
     /\ Len(arg) > 0
     /\ SumOver(arg, LAMBDA p : p.mass) # 0) =>
        /\ outcome = "returned"
        /\ ret.den # 0
        /\ ret.num[1] * SumOver(arg, LAMBDA p : p.mass)
              = SumOver(arg, LAMBDA p : p.mass * X(p)) * ret.den
        /\ ret.num[2] * SumOver(arg, LAMBDA p : p.mass)
              = SumOver(arg, LAMBDA p : p.mass * Y(p)) * ret.den
        /\ ret.num[3] * SumOver(arg, LAMBDA p : p.mass)
              = SumOver(arg, LAMBDA p : p.mass * Z(p)) * ret.den
        /\ arg = LineMasses => ret.num = <<0, 0, 0>>

C6_Witness ==
    /\ Returned("calc_center_of_mass")
    /\ arg = LineMasses
    /\ ret.num = <<0, 0, 0>>
    /\ ret.den = 3

\* C7: when the masses of the points passed to calc_center_of_mass sum to
\* zero (the empty list included), the call ends in a defined error; it never
\* returns a vector, a NaN or an infinity got by dividing by zero.
C7_ZeroMassRaises ==
    (/\ call = "calc_center_of_mass"
     /\ outcome # "pending"
     /\ SumOver(arg, LAMBDA p : p.mass) = 0) =>
        outcome = "raised"

\* two masses that cancel, away from the origin
C7_Witness ==
    /\ call = "calc_center_of_mass"
    /\ outcome = "raised"
    /\ Len(arg) = 2
    /\ arg[1].mass = 1
    /\ arg[2].mass = -1
    /\ arg[1].coords # arg[2].coords

\* ------------------------------------------------ properties of database.py
\* the row the run inserts for the i-th position of the sources
ExpectedRow(i) ==
    LET b == blyp_read[i]
        p == pm7_read[i]
    IN <<b.id, <<"eV", p.E>>, <<"eV", b.E>>, SMILES_dict[b.id],
         <<"ExplicitBitVect", SMILES_dict[b.id]>>,
         IF orbitalsDir[b.id] = "absent" THEN <<"None">> ELSE <<"homo of", b.id>>>>

\* the position whose row was read when the run aborted raised no insertion
Inserted == IF main_pc = "aborted" THEN Len(blyp_read) - 1 ELSE Len(blyp_read)

\* the rows the run has inserted, after those the table held before
InsertedRows ==
    IF Len(table) > 0 /\ table[1] = OldRow THEN Tail(table) ELSE table

\* C8: when the orbital file of a molecule is not found, the molecule's row
\* is still inserted, with a null orbital descriptor and its other fields
\* intact, and the loop goes on: every later molecule is inserted as it would
\* be had the file existed.
C8_MissingOrbitalFileIsNull ==
    main_pc \in {"loop", "done", "aborted"} =>
        /\ error # "FileNotFoundError"
        /\ InsertedRows = [i \in 1..Inserted |-> ExpectedRow(i)]

\* a run that ended with three rows inserted, the first with a missing file
\* and the second with its file
C8_Witness ==
    /\ main_pc = "done"
    /\ Len(InsertedRows) >= 2
    /\ orbitalsDir[blyp_read[1].id] = "absent"
    /\ InsertedRows[1][6] = None
    /\ orbitalsDir[blyp_read[2].id] = "present"
    /\ InsertedRows[2][6] # None

\* the positions read from both sources at which the ids differ
Mismatches ==
    {i \in 1..Len(pm7_read) : blyp_read[i].id # pm7_read[i].id}

\* C9: at the first position where the id read from the BLYP source differs
\* from the id read from the PM7 source, the run aborts with a fatal error:
\* no row is inserted for that position or for any later one.
C9_MismatchAborts ==
    Mismatches # {} =>
        /\ main_pc = "aborted"
        /\ Len(blyp_read) = Min(Mismatches)
        /\ Len(InsertedRows) < Min(Mismatches)

C9_Witness ==
    /\ main_pc = "aborted"
    /\ error = "Exception: blyp_mol_id != pm7_mol_id"
    /\ Mismatches = {3}
    /\ Len(InsertedRows) = 2

\* C17: an ingestion run is all-or-nothing for the committed state: the rows
\* are inserted one at a time without a commit, the one commit is executed
\* only after the last row of the BLYP source has been processed, and on every
\* path where the run aborts (mismatched ids, PM7 source shorter than the BLYP
\* source, missing SMILES entry, bad fingerprint) the commit is not reached,
\* so none of the rows the run inserted is committed.
C17_AllOrNothing ==
    /\ main_pc \in {"loop", "aborted"} =>
          /\ durable \in {<<>>, <<OldRow>>}
          /\ durable \o InsertedRows = table
    /\ main_pc = "done" =>
          /\ durable = table
          /\ Len(InsertedRows) = Len(blyp_read)
          /\ error = ""

\* a run aborted by a missing SMILES entry at its third row, after two
\* insertions: the table the connection sees holds them, the committed one
\* does not
C17_Witness ==
    /\ main_pc = "aborted"
    /\ error = "KeyError"
    /\ Len(blyp_read) = 3
    /\ Len(InsertedRows) = 2
    /\ durable = <<OldRow>>
    /\ Len(table) = 3

\* a run that reached its commit with three rows
C17_Committed ==
    /\ main_pc = "done"
    /\ Len(InsertedRows) = 3
    /\ durable = table

\* the positions of the rows of the table with the given mol_id
Matches(mol_id) == {i \in 1..Len(table) : table[i][1] = mol_id}

\* C10: get_row_from_mol_id called with a mol_id that matches more than one
\* stored row prints a warning and returns the first matching row without
\* raising; with exactly one match it returns that row and prints no warning.
C10_DuplicateWarnsReturnsFirst ==
    last.op = "get_row_from_mol_id" =>
        /\ Cardinality(Matches(last.arg)) > 1 =>
              /\ last.outcome = "returned"
              /\ last.value = table[Min(Matches(last.arg))]
              /\ last.printed = <<"WARNING">>
        /\ Cardinality(Matches(last.arg)) = 1 =>
              /\ last.outcome = "returned"
              /\ last.value = table[Min(Matches(last.arg))]
              /\ last.printed = <<>>

\* a lookup of an id stored twice, in rows that differ, with another row
\* stored before them
C10_Witness ==
    /\ last.op = "get_row_from_mol_id"
    /\ Len(table) = 3
    /\ Matches(last.arg) = {2, 3}
    /\ table[2] # table[3]
    /\ last.value = table[2]
    /\ stdout = <<"WARNING">>

\* the entry of a row in the list a full-scan read returns
EntryOf(reader, row) ==
    CASE reader \in {"get_all", "get_all_cursor"} -> row
      [] reader = "get_mol_ids" -> row[1]
      [] reader = "get_pm7_energies" -> row[2]
      [] reader = "get_blyp_energies" -> row[3]
      [] reader = "get_smiles" -> row[4]
      [] reader = "get_fingerprints" -> row[5]
      [] reader = "get_molecular_orbitals" -> row[6]

\* the list read holds one entry for each stored row, the i-th entry that of
\* the i-th row inserted
ReadInInsertionOrder ==
    /\ Len(last.value) = Len(table)
    /\ \A i \in 1..Len(table) : last.value[i] = EntryOf(last.op, table[i])

\* C12: after any sequence of add_dataset_row / add_dataset calls, each of
\* the full-scan reads (get_all, get_all_cursor, get_mol_ids,
\* get_blyp_energies, get_pm7_energies, get_smiles, get_fingerprints,
\* get_molecular_orbitals) returns one entry for each inserted row, in
\* insertion order: its i-th entry belongs to the i-th inserted row.
C12_FullScanInInsertionOrder ==
    last.op \in Readers =>
        /\ last.outcome = "returned"
        /\ ReadInInsertionOrder

\* the same for a table that holds a row
FullScanOfStoredRows ==
    (last.op \in Readers /\ table # <<>>) =>
        /\ last.outcome = "returned"
        /\ ReadInInsertionOrder

\* no read changes the stored rows
ReadsLeaveRows ==
    [][last'.op \in Readers \cup {"get_row_from_mol_id"} =>
          /\ table' = table
          /\ durable' = durable]_vars

\* C13: an orbital descriptor d written to a dataset row (a blob of index ->
\* occupancy / eigenvalue / contribution data, or null), stored through
\* adapt_serialized_molecular_orbital and read back through
\* convert_serialized_molecular_orbital, comes back equal to d: keys, key
\* types, nesting and values are preserved, and null comes back as null.
C13_DescriptorRoundTrip ==
    (call = "store" /\ outcome = "fetched") => ret = arg

\* a descriptor with an occupied orbital and the contributions of two atoms
\* has been stored and read back
C13_Witness ==
    /\ call = "store"
    /\ outcome = "fetched"
    /\ arg # None
    /\ arg[2][1][2] = OrbitalData(TRUE, -1, <<0, 1>>)
    /\ ret # None
    /\ ret[2][1][2][2][3][2][2][2][1] = <<"str", "2">>

\* null has been stored and read back
C13_NullFetched ==
    /\ call = "store"
    /\ outcome = "fetched"
    /\ arg = None
    /\ ret = None


\* ------------------------------------------------------- specifications
EngineIdle ==
    /\ distance_fun = "structural_distance"
    /\ op = "none"
    /\ k = 0
    /\ descending = FALSE
    /\ pc = "idle"
    /\ raised = ""
    /\ effects = <<>>
    /\ cancelled_at = -1
    /\ all_ = <<>>
    /\ indices = <<>>
    /\ calls = <<>>
    /\ distances = <<>>
    /\ small = <<>>
    /\ large = <<>>
    /\ result = None

\* the operations of similarity.py on a stored dataset
Init == EngineInit /\ OrbIdle /\ IngestIdle /\ ApiIdle

NextCancel ==
    \/ StartCall /\ UNCHANGED <<dbVars, orbVars, ingestVars, apiVars>>
    \/ RequestCancel /\ UNCHANGED <<dbVars, orbVars, ingestVars, apiVars>>
    \/ PairStep /\ UNCHANGED <<dbVars, orbVars, ingestVars, apiVars>>
    \/ Finish /\ UNCHANGED <<dbVars, orbVars, ingestVars, apiVars>>

Next ==
    \/ StartCall /\ UNCHANGED <<dbVars, orbVars, ingestVars, apiVars>>
    \/ PairStep /\ UNCHANGED <<dbVars, orbVars, ingestVars, apiVars>>
    \/ Finish /\ UNCHANGED <<dbVars, orbVars, ingestVars, apiVars>>

Spec == Init /\ [][Next]_vars

\* the same operations, with a caller that may ask a running one to stop
SpecCancel == Init /\ [][NextCancel]_vars

\* one call of a function of orbital_calculations
InitOrbital ==
    /\ table = <<>>
    /\ durable = <<>>
    /\ EngineIdle /\ OrbInit /\ IngestIdle /\ ApiIdle

NextOrbital ==
    \/ ApplyHomoLumo /\ UNCHANGED <<dbVars, engineVars, ingestVars, apiVars>>
    \/ ApplyInertiaTensor /\ UNCHANGED <<dbVars, engineVars, ingestVars, apiVars>>
    \/ ApplyCenterOfMass /\ UNCHANGED <<dbVars, engineVars, ingestVars, apiVars>>

SpecOrbital == InitOrbital /\ [][NextOrbital]_vars

\* an orbital descriptor stored in a row and read back
InitStorage ==
    /\ table = <<>>
    /\ durable = <<>>
    /\ EngineIdle /\ StorageInit /\ IngestIdle /\ ApiIdle

NextStorage ==
    \/ StoreDescriptor /\ UNCHANGED <<dbVars, engineVars, ingestVars, apiVars>>
    \/ FetchDescriptor /\ UNCHANGED <<dbVars, engineVars, ingestVars, apiVars>>

SpecStorage == InitStorage /\ [][NextStorage]_vars

\* one run of database.main
InitIngest == IngestInit /\ EngineIdle /\ OrbIdle /\ ApiIdle

NextIngest ==
    \/ MainStep /\ UNCHANGED <<engineVars, orbVars, apiVars>>
    \/ MainStepPm7Exhausted /\ UNCHANGED <<engineVars, orbVars, apiVars>>
    \/ MainFinish /\ UNCHANGED <<engineVars, orbVars, apiVars>>

SpecIngest == InitIngest /\ [][NextIngest]_vars

\* the operations of a DB object
InitDB == ApiInit /\ EngineIdle /\ OrbIdle /\ IngestIdle

NextDB ==
    \/ AddDatasetRow /\ UNCHANGED <<engineVars, orbVars, ingestVars>>
    \/ AddDataset /\ UNCHANGED <<engineVars, orbVars, ingestVars>>
    \/ Commit /\ UNCHANGED <<engineVars, orbVars, ingestVars>>
    \/ GetRowFromMolId /\ UNCHANGED <<engineVars, orbVars, ingestVars>>
    \/ FullScan /\ UNCHANGED <<engineVars, orbVars, ingestVars>>

SpecDB == InitDB /\ [][NextDB]_vars

====
